---- MODULE Spec2Model ----
(***************************************************************************)
(* Model of the Freemail worker entry point (src/src/server.js): the       *)
(* inbound-mail handler `email` and the expiry job `scheduled`, sharing    *)
(* the relational store (tables mailboxes, messages) and the blob store.   *)
(* A handler runs from one `await` to the next in one action, so           *)
(* concurrent invocations interleave exactly at the awaits.                *)
(***************************************************************************)
EXTENDS Integers, Sequences, FiniteSets, Bags, TLC

(***************************************************************************)
(* Bounds of the model.                                                    *)
(***************************************************************************)
\* number of inbound-mail invocations of a run
MaxIngest == 2
\* number of times the clock advances, by one retention window at a time
MaxTicks == 1

\* number of deletes of one key that may be in flight at a time
MaxInFlight == 2

\* server.js:228
EXPIRE_MINUTES == 30

\* server.js:161: the length the preview is cut to
PREVIEW_LENGTH == 120

\* server.js:129: the length the raw text is cut to when it stands in for the
\* text body
RAW_TEXT_LENGTH == 100000

(***************************************************************************)
(* Strings are sequences of one-character strings.                         *)
(***************************************************************************)
EmptyStr == << >>

\* String.prototype.toLowerCase on the characters the model uses.
LowerChar(c) ==
  CASE c = "A" -> "a"
    [] c = "B" -> "b"
    [] c = "X" -> "x"
    [] OTHER   -> c

toLowerCase(s) == [k \in 1..Len(s) |-> LowerChar(s[k])]

\* Position of the first "@" of s at or after position k; 0 when there is none.
RECURSIVE IndexOfAt(_, _)
IndexOfAt(s, k) ==
  IF k > Len(s) THEN 0
  ELSE IF s[k] = "@" THEN k
  ELSE IndexOfAt(s, k + 1)

\* String.prototype.split('@'): the pieces between the "@"s, in order
\* (''.split('@') is [''], 'a@'.split('@') is ['a', '']).
RECURSIVE split(_)
split(s) ==
  LET p == IndexOfAt(s, 1)
  IN  IF p = 0 THEN << s >>
      ELSE << SubSeq(s, 1, p - 1) >> \o split(SubSeq(s, p + 1, Len(s)))

\* A destructured or indexed array element: undefined is modelled as the
\* empty string, which is falsy like undefined in every use the handler makes.
Element(arr, k) == IF k <= Len(arr) THEN arr[k] ELSE EmptyStr

Truthy(s) == s # EmptyStr

\* String.prototype.slice(0, n)
slice(s, n) == IF Len(s) <= n THEN s ELSE SubSeq(s, 1, n)

\* The characters \s matches and trim removes, among those the model uses.
IsSpace(c) == c \in { " ", "\n" }

Least(S) == CHOOSE k \in S : \A j \in S : k <= j
Greatest(S) == 0 - Least({ 0 - k : k \in S })

Kept(marked) == SelectSeq(marked, LAMBDA c : c # "")

\* String.prototype.trim: from the first to the last character that is not
\* white space.
trim(s) ==
  LET solid == { k \in 1..Len(s) : ~IsSpace(s[k]) }
  IN  IF solid = {} THEN EmptyStr ELSE SubSeq(s, Least(solid), Greatest(solid))

\* replace(/<[^>]+>/g, ' '): scanning from the left, a "<" followed by at
\* least one character other than ">" and then a ">" becomes one space.  A
\* match never crosses a ">", so the match that ends at a ">" starts at the
\* first "<" after the ">" before it, when that "<" is not next to it.
StripTags(s) ==
  LET n == Len(s)
      closes == { g \in 1..n : s[g] = ">" }
      opens == { k \in 1..n : s[k] = "<" }
      close(j) == Least({ g \in closes : j <= g } \cup { n + 1 })
      before(j) == Greatest({ g \in closes : g < j } \cup { 0 })
      open(j) == Least({ k \in opens : before(j) < k /\ k <= close(j) }
                         \cup { n + 2 })
      matched(j) == close(j) <= n /\ open(j) <= j /\ open(j) <= close(j) - 2
      marked == [ j \in 1..n |->
                  IF matched(j) THEN (IF open(j) = j THEN " " ELSE "") ELSE s[j] ]
  IN  Kept(marked)

\* replace(/\s+/g, ' '): every run of white space becomes one space.
CollapseSpaces(s) ==
  LET marked == [ k \in 1..Len(s) |->
                  IF ~IsSpace(s[k]) THEN s[k]
                  ELSE IF k > 1 /\ IsSpace(s[k - 1]) THEN "" ELSE " " ]
  IN  Kept(marked)

(***************************************************************************)
(* Collaborators imported by server.js whose code is outside this file.    *)
(***************************************************************************)
RECURSIVE IndexOf(_, _, _)
IndexOf(s, c, k) ==
  IF k > Len(s) THEN 0
  ELSE IF s[k] = c THEN k
  ELSE IndexOf(s, c, k + 1)

\* utils/common.js extractEmail: the bare address of a header value, that is
\* the text between angle brackets when there is one, the text itself
\* otherwise.
extractEmail(s) ==
  LET lt == IndexOf(s, "<", 1)
      gt == IF lt = 0 THEN 0 ELSE IndexOf(s, ">", lt + 1)
  IN  IF lt > 0 /\ gt > lt + 1 THEN SubSeq(s, lt + 1, gt - 1) ELSE s

\* db/mailboxes.js getForwardTarget: what the per-mailbox forward lookup may
\* return, the empty value (no target) or a configured target address.
ForwardTargets == { EmptyStr, << "f", "@", "x" >> }

(***************************************************************************)
(* Inbound messages: the envelope recipient message.to and the To header.  *)
(* message.to is absent, a string, a list of entries (each a string, an    *)
(* object with an address field, or null), or a getter that throws.        *)
(***************************************************************************)
AX  == << "a", "@", "x" >>
AXu == << "A", "@", "X" >>
BX  == << "b", "@", "x" >>
NoAt == << "a", "x" >>

Entry(kind, str) == [kind |-> kind, str |-> str]
To(kind, str, list) == [kind |-> kind, str |-> str, list |-> list]
ToAbsent == To("absent", EmptyStr, << >>)
ToStr(s) == To("string", s, << >>)
ToList(l) == To("list", EmptyStr, l)
ToThrows == To("throws", EmptyStr, << >>)

Message(to, toHeader) == [to |-> to, toHeader |-> toHeader]
NoMessage == Message(ToAbsent, << "-" >>)

\* The messages the model delivers.
Inbox ==
  { Message(ToStr(AX), BX),
    Message(ToList(<< Entry("object", AXu) >>), EmptyStr),
    Message(ToAbsent, NoAt),
    Message(ToList(<< >>), << "n", "<", "a", "@", "x", ">" >>),
    Message(ToList(<< Entry("string", EmptyStr), Entry("string", BX) >>), AXu),
    Message(ToList(<< Entry("null", EmptyStr) >>), BX),
    Message(ToThrows, EmptyStr),
    Message(ToStr(EmptyStr), << "@", "x" >>) }

\* The body of a message: the decoded raw text, and the text and HTML parts
\* parseEmailBody returns for it.
Body(rawText, text, html) == [ rawText |-> rawText, text |-> text, html |-> html ]

PlainBody == Body(<< "r" >>, << "h", "i" >>, EmptyStr)

\* A delivery is a message together with what the collaborators answer during
\* its invocation: the forward lookup, whether the raw body can be read, what
\* the parser makes of it, whether a put to the blob store succeeds, and the
\* collaborator that throws, if one does ("getForwardTarget", "forward" for
\* the forwarder that is called, "parseEmailBody", or "none").
DeliveryOf(msg, forwardTo, readable, put, body) ==
  [ message |-> msg, forwardTo |-> forwardTo, readable |-> readable, put |-> put,
    body |-> body, throws |-> "none" ]

Throwing(d, collaborator) == [d EXCEPT !.throws = collaborator]

Delivery(msg, forwardTo, readable, put) ==
  DeliveryOf(msg, forwardTo, readable, put, PlainBody)

Collaborators == { "getForwardTarget", "forward", "parseEmailBody" }

\* A message to an address with either answer of the forward lookup, and a
\* message to no address, each with a collaborator that throws.
ThrowingDeliveries ==
  { Throwing(Delivery(Message(ToStr(AX), BX), target, TRUE, "stored"), collaborator) :
      target \in ForwardTargets, collaborator \in Collaborators }
  \cup
  { Throwing(Delivery(Message(ToAbsent, NoAt), EmptyStr, TRUE, "stored"), collaborator) :
      collaborator \in Collaborators }

\* Every message with every collaborator answering, one message under every
\* answer of the forward lookup, the body read and the put, and the
\* deliveries in which a collaborator throws.
AllDeliveries ==
  { Delivery(msg, EmptyStr, TRUE, "stored") : msg \in Inbox }
  \cup
  { Delivery(Message(ToStr(AX), BX), target, readable, put) :
      target \in ForwardTargets, readable \in BOOLEAN,
      put \in { "stored", "throws" } }
  \cup ThrowingDeliveries

\* The delivery of the runs in which invocations and sweeps interleave: one
\* address, written in upper case, every collaborator answering.
PlainDeliveries ==
  { Delivery(Message(ToList(<< Entry("object", AXu) >>), EmptyStr), EmptyStr,
             TRUE, "stored") }

Repeat(c, n) == [k \in 1..n |-> c]

\* Text parts: none, blank, plain, padded with white space, longer than the
\* preview, and longer than the preview after a leading line break.
Texts ==
  { EmptyStr,
    << " " >>,
    << " ", "h", "i", " " >>,
    Repeat("t", PREVIEW_LENGTH + 1),
    << "\n" >> \o Repeat("t", PREVIEW_LENGTH) }

\* HTML parts: none, tagged text, white space runs around and inside tags, and
\* a tag followed by a text longer than the preview.
Htmls ==
  { EmptyStr,
    << "<", "b", ">", "h", "i", "<", "/", "b", ">" >>,
    << " ", "<", "p", ">", "a", " ", "\n", "<", ">", "b", "<", "/", "p", ">" >>,
    << "<", "p", ">" >> \o Repeat("h", PREVIEW_LENGTH + 1) }

\* Recipient addresses with one "@", with several, and with an empty piece.
Addresses ==
  { AXu,
    << "a", "@", "x", "@", "b" >>,
    << "A", "@", "X", "@" >>,
    << "a", "@", "@", "x" >>,
    << "@", "x", "@", "b" >> }

\* The deliveries of the runs that look at what a message holds: every text
\* part with every HTML part to one address, one body to every address, and
\* a body the parser throws on.
ContentDeliveries ==
  { DeliveryOf(Message(ToStr(AX), EmptyStr), EmptyStr, TRUE, "stored",
               Body(<< " ", "r" >>, text, html)) : text \in Texts, html \in Htmls }
  \cup
  { Delivery(Message(ToStr(address), EmptyStr), EmptyStr, TRUE, "stored") :
      address \in Addresses }
  \cup
  { Throwing(Delivery(Message(ToStr(AX), EmptyStr), EmptyStr, TRUE, "stored"),
             "parseEmailBody") }

\* EnvelopeTo reading only string entries, never an entry's address field.
EnvelopeToStringsOnly(toValue) ==
  IF toValue.kind = "list" /\ Len(toValue.list) > 0
    THEN IF toValue.list[1].kind = "string" THEN toValue.list[1].str ELSE EmptyStr
  ELSE IF toValue.kind = "string" THEN toValue.str
  ELSE EmptyStr

(***************************************************************************)
(* server.js:99-107, the envelope recipient.  Reading message.to, or the   *)
(* address of a null first entry, throws; the catch leaves envelopeTo ''.  *)
(***************************************************************************)
EnvelopeTo(toValue) ==
  IF toValue.kind = "throws" THEN EmptyStr
  ELSE IF toValue.kind = "list" /\ Len(toValue.list) > 0
    THEN LET first == toValue.list[1]
         IN  IF first.kind = "string" THEN first.str
             ELSE IF first.kind = "null" THEN EmptyStr
             ELSE first.str
  ELSE IF toValue.kind = "string" THEN toValue.str
  ELSE EmptyStr

\* server.js:109
ResolvedRecipient(msg) ==
  LET envelopeTo == EnvelopeTo(msg.to)
  IN  IF Truthy(envelopeTo) THEN envelopeTo
      ELSE IF Truthy(msg.toHeader) THEN msg.toHeader
      ELSE EmptyStr

\* server.js:136
Mailbox(msg) ==
  LET resolvedRecipient == ResolvedRecipient(msg)
  IN  extractEmail(IF Truthy(resolvedRecipient) THEN resolvedRecipient ELSE msg.toHeader)

\* server.js:122-133: the text part; the raw text stands in when the parser
\* found neither part, and an unreadable body leaves the part empty.
TextContent(readable, body) ==
  IF ~readable THEN EmptyStr
  ELSE IF ~Truthy(body.text) /\ ~Truthy(body.html)
    THEN slice(body.rawText, RAW_TEXT_LENGTH)
  ELSE body.text

\* server.js:122-133: the HTML part.
HtmlContent(readable, body) == IF ~readable THEN EmptyStr ELSE body.html

\* server.js:159-162
Preview(textContent, htmlContent) ==
  LET plain == IF Truthy(textContent) /\ Truthy(trim(textContent))
                 THEN textContent
                 ELSE trim(CollapseSpaces(StripTags(htmlContent)))
  IN  slice(plain, PREVIEW_LENGTH)

\* The SQL NULL bound in the place of an empty value (preview || null).
Null == << "NULL" >>

\* server.js:149-151: the object key.  Its unique component keyId is the
\* number of the invocation; the empty sequence is the empty key ''.
ObjectKey(i) == << i >>
EmptyKey == << >>

(***************************************************************************)
(* State.                                                                  *)
(***************************************************************************)
VARIABLES
  mailboxes,      \* rows of table mailboxes
  messages,       \* rows of table messages
  nextMailboxId,  \* AUTOINCREMENT counter of mailboxes.id
  blobs,          \* object keys present in the blob store env.MAIL_EML
  r2,             \* whether env.MAIL_EML is bound
  now,            \* the datastore's clock, in minutes
  inbound,        \* the deliveries the mail source may make
  email,          \* the invocations of the email handler
  sweep,          \* the invocation of the scheduled handler
  pendingDeletes  \* bag of the keys of the blob deletes handed to
                  \* ctx.waitUntil and not yet settled

vars == << mailboxes, messages, nextMailboxId, blobs, r2, now, inbound,
           email, sweep, pendingDeletes >>

Invocations == 1..MaxIngest

NoDelivery == Delivery(NoMessage, EmptyStr, FALSE, "stored")

IdleEmail ==
  [ pc |-> "idle", message |-> NoMessage, delivery |-> NoDelivery,
    resolvedRecipient |-> EmptyStr,
    mailbox |-> EmptyStr, mailboxForwardTo |-> EmptyStr, forwards |-> {},
    rawBuffer |-> FALSE, objectKey |-> EmptyKey, stored |-> FALSE,
    mailboxId |-> 0, log |-> "none",
    textContent |-> EmptyStr, htmlContent |-> EmptyStr, preview |-> EmptyStr ]

\* keys: the keys the tick handed to r2.delete; removed: the message rows the
\* tick has deleted.
IdleSweep == [ pc |-> "idle", keys |-> {}, removed |-> {} ]

Empty ==
  /\ mailboxes = {}
  /\ messages = {}
  /\ nextMailboxId = 1
  /\ blobs = {}
  /\ r2 \in BOOLEAN
  /\ now = 0
  /\ email = [i \in Invocations |-> IdleEmail]
  /\ sweep = IdleSweep
  /\ pendingDeletes = EmptyBag

Init == Empty /\ inbound = PlainDeliveries

InitEmail == Empty /\ inbound = AllDeliveries

InitContent == Empty /\ inbound = ContentDeliveries

(***************************************************************************)
(* The relational store.                                                   *)
(***************************************************************************)
\* SELECT id FROM mailboxes WHERE address = ?
SelectMailbox(address) == { mb \in mailboxes : mb.address = address }

\* The unique index on mailboxes.address rejects an insert of this address.
AddressTaken(address) == SelectMailbox(address) # {}

\* results[0].id of a non-empty result
FirstId(rows) == CHOOSE id \in { mb.id : mb \in rows } : \A mb \in rows : id <= mb.id

\* created_at <= datetime('now', '-30 minutes')
\* Expired measured from the last access instead of the creation.
ExpiredSinceLastAccess(mb) == mb.last_accessed_at <= now - EXPIRE_MINUTES

Expired(mb) == mb.created_at <= now - EXPIRE_MINUTES

(***************************************************************************)
(* The email handler, server.js:84-213.  An invocation ends with pc "done" *)
(* and a log: "recorded" (the message row is written), "database" (no      *)
(* connection, server.js:89), or the error the outer catch logs            *)
(* (server.js:211): "mailbox" for the failed resolution thrown at          *)
(* server.js:181, "insert" for a rejected INSERT INTO mailboxes, "target"  *)
(* for a rejected getForwardTarget, "forward" for a forwarder that throws. *)
(***************************************************************************)
\* Invocations are numbered in the order their messages arrive.
InOrder(i) == \A j \in 1..(i - 1) : email[j].pc # "idle"

\* server.js:85-91: the database connection fails, the handler logs and returns.
EmailNoDatabase(i) ==
  /\ email[i].pc = "idle"
  /\ InOrder(i)
  /\ \E d \in inbound :
       email' = [email EXCEPT ![i].pc = "done", ![i].message = d.message,
                              ![i].log = "database"]
  /\ UNCHANGED << mailboxes, messages, nextMailboxId, blobs, r2, now, inbound, sweep,
                  pendingDeletes >>

\* Forward dispatching the local-part forward even when a target is found.
ForwardBoth(mailboxForwardTo) ==
  IF Truthy(mailboxForwardTo)
    THEN { "forwardByMailboxConfig", "forwardByLocalPart" }
    ELSE { "forwardByLocalPart" }

\* server.js:113-118: exactly the branch the lookup result selects is dispatched.
Forward(mailboxForwardTo) ==
  IF Truthy(mailboxForwardTo) THEN { "forwardByMailboxConfig" }
  ELSE { "forwardByLocalPart" }

\* server.js:139-157: the blob write.  The key is built first; the put is
\* made when the store is bound and the body was read, and a put that throws
\* is logged.  The result is << objectKey, whether the blob is stored >>.
Archive(i, rawBuffer, put) ==
  << ObjectKey(i), r2 /\ rawBuffer /\ put = "stored" >>

\* server.js:85-113: the connection is there; the recipient is resolved and
\* the forward target is asked for.
Receive(i) ==
  /\ email[i].pc = "idle"
  /\ InOrder(i)
  /\ \E d \in inbound :
       email' = [email EXCEPT
                   ![i].pc = "target",
                   ![i].message = d.message,
                   ![i].delivery = d,
                   ![i].resolvedRecipient = ResolvedRecipient(d.message)]
  /\ UNCHANGED << mailboxes, messages, nextMailboxId, blobs, r2, now, inbound, sweep,
                  pendingDeletes >>

\* server.js:113-125: the lookup of the forward target settles and one
\* forwarder is called; then the raw body is asked for.  A rejected lookup or
\* a forwarder that throws is caught by the outer catch only
\* (server.js:210-212).
DispatchForward(i) ==
  /\ email[i].pc = "target"
  /\ LET d == email[i].delivery
     IN  IF d.throws = "getForwardTarget"
           THEN email' = [email EXCEPT ![i].pc = "done", ![i].log = "target"]
           ELSE email' = [email EXCEPT
                            ![i].mailboxForwardTo = d.forwardTo,
                            ![i].forwards = Forward(d.forwardTo),
                            ![i].pc = IF d.throws = "forward" THEN "done" ELSE "read",
                            ![i].log = IF d.throws = "forward" THEN "forward" ELSE @]
  /\ UNCHANGED << mailboxes, messages, nextMailboxId, blobs, r2, now, inbound, sweep,
                  pendingDeletes >>

\* server.js:136-151 and, once no put is awaited, 159-166: the mailbox
\* address, the object key and the preview of the parts.
Extracted(i, e, textContent, htmlContent, put) ==
  [e EXCEPT ![i].textContent = textContent,
            ![i].htmlContent = htmlContent,
            ![i].mailbox = Mailbox(e[i].message),
            ![i].objectKey = Archive(i, e[i].rawBuffer, "throws")[1],
            ![i].preview = IF put THEN @ ELSE Preview(textContent, htmlContent),
            ![i].pc = IF put THEN "put" ELSE "archived"]

\* server.js:125: the raw body arrives and its text is asked for (126), or
\* the read fails: the parts stay empty (130-133), no put is made (152) and
\* the handler runs on to the lookup of the mailbox (168).
ReadBody(i) ==
  /\ email[i].pc = "read"
  /\ IF email[i].delivery.readable
       THEN email' = [email EXCEPT ![i].pc = "text", ![i].rawBuffer = TRUE]
       ELSE email' = Extracted(i, email, TextContent(FALSE, email[i].delivery.body),
                               HtmlContent(FALSE, email[i].delivery.body), FALSE)
  /\ UNCHANGED << mailboxes, messages, nextMailboxId, blobs, r2, now, inbound, sweep,
                  pendingDeletes >>

\* server.js:126-153: the text is parsed, a parser that throws leaves the
\* parts empty; the key is built and, the store being bound, the put is made.
ParseBody(i) ==
  /\ email[i].pc = "text"
  /\ LET d == email[i].delivery
         parsed == d.throws # "parseEmailBody"
     IN  email' = Extracted(i, email, TextContent(parsed, d.body),
                            HtmlContent(parsed, d.body), r2)
  /\ UNCHANGED << mailboxes, messages, nextMailboxId, blobs, r2, now, inbound, sweep,
                  pendingDeletes >>

\* server.js:153-166: the put settles, a put that throws is logged; then the
\* preview and the verification code.
Put(i) ==
  /\ email[i].pc = "put"
  /\ LET archived == Archive(i, email[i].rawBuffer, email[i].delivery.put)
     IN  /\ email' = [email EXCEPT
                        ![i].stored = archived[2],
                        ![i].preview = Preview(email[i].textContent,
                                               email[i].htmlContent),
                        ![i].pc = "archived"]
         /\ blobs' = IF archived[2] THEN blobs \cup { archived[1] } ELSE blobs
  /\ UNCHANGED << mailboxes, messages, nextMailboxId, r2, now, inbound, sweep,
                  pendingDeletes >>

\* Splittable asking for a local part only.
SplittableWithoutDomain(mailbox) ==
  Truthy(Element(split(toLowerCase(mailbox)), 1))

\* server.js:173-174: the address can be split into a local part and a domain.
Splittable(mailbox) ==
  LET parts == split(toLowerCase(mailbox))
  IN  Truthy(Element(parts, 1)) /\ Truthy(Element(parts, 2))

\* LookupAddress binding the address as written.
LookupAddressAsGiven(mailbox) == mailbox

\* server.js:168: the address the lookup binds.
LookupAddress(mailbox) == toLowerCase(mailbox)

\* server.js:168-174, 181: lookup of the mailbox by lowercase address.
LookupMailbox(i) ==
  /\ email[i].pc = "archived"
  /\ LET resMb == SelectMailbox(LookupAddress(email[i].mailbox))
     IN  IF resMb # {}
           THEN email' = [email EXCEPT ![i].pc = "resolved",
                                       ![i].mailboxId = FirstId(resMb)]
         ELSE IF Splittable(email[i].mailbox)
           THEN email' = [email EXCEPT ![i].pc = "insert"]
         ELSE email' = [email EXCEPT ![i].pc = "done", ![i].log = "mailbox"]
  /\ UNCHANGED << mailboxes, messages, nextMailboxId, blobs, r2, now, inbound, sweep,
                  pendingDeletes >>

\* server.js:175-176: INSERT INTO mailboxes.  The address column is unique:
\* an insert of an address that is present throws, and the throw is caught
\* only by the handler's outer catch (server.js:210-212).
InsertMailbox(i) ==
  /\ email[i].pc = "insert"
  /\ LET address == toLowerCase(email[i].mailbox)
         parts == split(address)
     IN  IF AddressTaken(address)
           THEN /\ email' = [email EXCEPT ![i].pc = "done", ![i].log = "insert"]
                /\ UNCHANGED << mailboxes, nextMailboxId >>
           ELSE /\ mailboxes' = mailboxes \cup
                     { [ id |-> nextMailboxId, address |-> address,
                         local_part |-> Element(parts, 1),
                         domain |-> Element(parts, 2),
                         created_at |-> now, last_accessed_at |-> now,
                         is_pinned |-> FALSE, is_favorite |-> FALSE ] }
                /\ nextMailboxId' = nextMailboxId + 1
                /\ email' = [email EXCEPT ![i].pc = "requery"]
  /\ UNCHANGED << messages, blobs, r2, now, inbound, sweep, pendingDeletes >>

\* server.js:177-181: the identifier is read back; none found throws.
RequeryMailbox(i) ==
  /\ email[i].pc = "requery"
  /\ LET created == SelectMailbox(toLowerCase(email[i].mailbox))
     IN  IF created # {}
           THEN email' = [email EXCEPT ![i].pc = "resolved",
                                       ![i].mailboxId = FirstId(created)]
           ELSE email' = [email EXCEPT ![i].pc = "done", ![i].log = "mailbox"]
  /\ UNCHANGED << mailboxes, messages, nextMailboxId, blobs, r2, now, inbound, sweep,
                  pendingDeletes >>

\* server.js:197-209: INSERT INTO messages.  A row is its owning mailbox, its
\* preview and its object key; the key is unique to the invocation, so distinct
\* invocations insert distinct rows.
InsertMessage(i) ==
  /\ email[i].pc = "resolved"
  /\ messages' = messages \cup
       { [ mailbox_id |-> email[i].mailboxId,
           preview |-> IF Truthy(email[i].preview) THEN email[i].preview ELSE Null,
           r2_object_key |-> email[i].objectKey ] }
  /\ email' = [email EXCEPT ![i].pc = "done", ![i].log = "recorded"]
  /\ UNCHANGED << mailboxes, nextMailboxId, blobs, r2, now, inbound, sweep,
                  pendingDeletes >>

(***************************************************************************)
(* The scheduled handler, server.js:218-271.                               *)
(***************************************************************************)
\* server.js:219-226: the database connection fails, the handler returns.
SweepNoDatabase ==
  /\ sweep.pc = "idle"
  /\ UNCHANGED vars

\* server.js:232-238: messages with a key whose mailbox is past retention.
ExpiredMessages ==
  { m \in messages :
      /\ \E mb \in mailboxes : m.mailbox_id = mb.id /\ Expired(mb)
      /\ m.r2_object_key # EmptyKey }

\* server.js:250-256: the message rows the purge deletes.
PurgedMessages ==
  { m \in messages : \E mb \in mailboxes : m.mailbox_id = mb.id /\ Expired(mb) }

\* PurgedMailboxes without the is_pinned and is_favorite conditions.
PurgedMailboxesAnyFlag == { mb \in mailboxes : Expired(mb) }

\* server.js:260-265: the mailbox rows the purge deletes.
PurgedMailboxes ==
  { mb \in mailboxes : Expired(mb) /\ ~mb.is_pinned /\ ~mb.is_favorite }

\* server.js:241-247: the keys the tick hands to r2.delete.
ScheduledKeys(expiredMessages) ==
  IF r2 /\ expiredMessages # {}
    THEN { m.r2_object_key : m \in expiredMessages }
    ELSE {}

\* server.js:232-247: the scan, then one background delete per scanned key.
Scan ==
  /\ sweep.pc = "idle"
  /\ LET keys == ScheduledKeys(ExpiredMessages)
     IN  /\ \A key \in keys : CopiesIn(key, pendingDeletes) < MaxInFlight
         /\ pendingDeletes' = pendingDeletes (+) SetToBag(keys)
         /\ sweep' = [ pc |-> "scheduled", keys |-> keys, removed |-> {} ]
  /\ UNCHANGED << mailboxes, messages, nextMailboxId, blobs, r2, now, inbound,
                  email >>

\* The mailbox DELETE issued in the place of the message DELETE.
DeleteMailboxesFirst ==
  /\ sweep.pc = "scheduled"
  /\ mailboxes' = mailboxes \ PurgedMailboxes
  /\ sweep' = [sweep EXCEPT !.pc = "messages"]
  /\ UNCHANGED << messages, nextMailboxId, blobs, r2, now, inbound, email,
                  pendingDeletes >>

\* server.js:249-256
DeleteMessages ==
  /\ sweep.pc = "scheduled"
  /\ messages' = messages \ PurgedMessages
  /\ sweep' = [sweep EXCEPT !.pc = "messages", !.removed = PurgedMessages]
  /\ UNCHANGED << mailboxes, nextMailboxId, blobs, r2, now, inbound, email,
                  pendingDeletes >>

\* server.js:258-265
DeleteMailboxes ==
  /\ sweep.pc = "messages"
  /\ mailboxes' = mailboxes \ PurgedMailboxes
  /\ sweep' = [sweep EXCEPT !.pc = "swept"]
  /\ UNCHANGED << messages, nextMailboxId, blobs, r2, now, inbound, email,
                  pendingDeletes >>

\* server.js:268: the SELECT of 232-238, the DELETE of 250-256 or the DELETE of
\* 260-265 raises a datastore error; the statement changes nothing and the
\* catch takes over.
SweepThrows ==
  /\ sweep.pc \in { "idle", "scheduled", "messages" }
  /\ sweep' = [sweep EXCEPT !.pc = "failed"]
  /\ UNCHANGED << mailboxes, messages, nextMailboxId, blobs, r2, now, inbound, email,
                  pendingDeletes >>

\* server.js:269: the tick logs the failure and returns.
SweepFailed ==
  /\ sweep.pc = "failed"
  /\ sweep' = IdleSweep
  /\ UNCHANGED << mailboxes, messages, nextMailboxId, blobs, r2, now, inbound, email,
                  pendingDeletes >>

\* server.js:267: the tick logs its completion and returns.
SweepDone ==
  /\ sweep.pc = "swept"
  /\ sweep' = IdleSweep
  /\ UNCHANGED << mailboxes, messages, nextMailboxId, blobs, r2, now, inbound, email,
                  pendingDeletes >>

\* SettleDelete with a failed delete ending the tick that is running.
SettleDeleteAborting(key) ==
  /\ BagIn(key, pendingDeletes)
  /\ pendingDeletes' = pendingDeletes (-) SetToBag({ key })
  /\ \/ blobs' = blobs \ { key } /\ sweep' = sweep
     \/ /\ blobs' = blobs
        /\ sweep' = IF sweep.pc \in { "scheduled", "messages" }
                      THEN [sweep EXCEPT !.pc = "failed"]
                      ELSE sweep
  /\ UNCHANGED << mailboxes, messages, nextMailboxId, r2, now, inbound, email >>

\* server.js:245: a background r2.delete settles; a failure is logged only.
SettleDelete(key) ==
  /\ BagIn(key, pendingDeletes)
  /\ pendingDeletes' = pendingDeletes (-) SetToBag({ key })
  /\ \/ blobs' = blobs \ { key }
     \/ blobs' = blobs
  /\ UNCHANGED << mailboxes, messages, nextMailboxId, r2, now, inbound, email, sweep >>

(***************************************************************************)
(* The environment: the clock, and the user flagging a mailbox through the *)
(* HTTP routes.                                                            *)
(***************************************************************************)
Tick ==
  /\ now < MaxTicks * EXPIRE_MINUTES
  /\ now' = now + EXPIRE_MINUTES
  /\ UNCHANGED << mailboxes, messages, nextMailboxId, blobs, r2, inbound, email, sweep,
                  pendingDeletes >>

SetPinned(id) ==
  /\ \E mb \in mailboxes :
       /\ mb.id = id
       /\ mailboxes' = (mailboxes \ { mb }) \cup
                         { [mb EXCEPT !.is_pinned = ~mb.is_pinned] }
  /\ UNCHANGED << messages, nextMailboxId, blobs, r2, now, inbound, email, sweep,
                  pendingDeletes >>

SetFavorite(id) ==
  /\ \E mb \in mailboxes :
       /\ mb.id = id
       /\ mailboxes' = (mailboxes \ { mb }) \cup
                         { [mb EXCEPT !.is_favorite = ~mb.is_favorite] }
  /\ UNCHANGED << messages, nextMailboxId, blobs, r2, now, inbound, email, sweep,
                  pendingDeletes >>

\* The user opens a mailbox through the HTTP routes.
Touch(id) ==
  /\ \E mb \in mailboxes :
       /\ mb.id = id
       /\ mailboxes' = (mailboxes \ { mb }) \cup
                         { [mb EXCEPT !.last_accessed_at = now] }
  /\ UNCHANGED << messages, nextMailboxId, blobs, r2, now, inbound, email, sweep,
                  pendingDeletes >>

MailboxIds == 1..MaxIngest

Next ==
  \/ \E i \in Invocations : EmailNoDatabase(i)
  \/ \E i \in Invocations : Receive(i)
  \/ \E i \in Invocations : DispatchForward(i)
  \/ \E i \in Invocations : ReadBody(i)
  \/ \E i \in Invocations : ParseBody(i)
  \/ \E i \in Invocations : Put(i)
  \/ \E i \in Invocations : LookupMailbox(i)
  \/ \E i \in Invocations : InsertMailbox(i)
  \/ \E i \in Invocations : RequeryMailbox(i)
  \/ \E i \in Invocations : InsertMessage(i)
  \/ SweepNoDatabase
  \/ Scan
  \/ DeleteMessages
  \/ DeleteMailboxes
  \/ SweepDone
  \/ SweepThrows
  \/ SweepFailed
  \/ \E key \in BagToSet(pendingDeletes) : SettleDelete(key)
  \/ Tick
  \/ \E id \in MailboxIds : SetPinned(id)
  \/ \E id \in MailboxIds : SetFavorite(id)

Spec == Init /\ [][Next]_vars

\* Invocations of the email handler one after the other.
Alone(i) == \A j \in Invocations \ { i } : email[j].pc \in { "idle", "done" }

Ingest(i) ==
  \/ EmailNoDatabase(i)
  \/ Receive(i)
  \/ DispatchForward(i)
  \/ ReadBody(i)
  \/ ParseBody(i)
  \/ Put(i)
  \/ LookupMailbox(i)
  \/ InsertMailbox(i)
  \/ RequeryMailbox(i)
  \/ InsertMessage(i)

\* The scheduled handler, the background deletes and the clock.
Sweep ==
  \/ SweepNoDatabase
  \/ Scan
  \/ DeleteMessages
  \/ DeleteMailboxes
  \/ SweepDone
  \/ SweepThrows
  \/ SweepFailed
  \/ \E key \in BagToSet(pendingDeletes) : SettleDelete(key)
  \/ Tick

\* One ingestion at a time, with the sweep and the user flagging mailboxes
\* interleaving at every await.
NextSweep ==
  \/ \E i \in Invocations : Alone(i) /\ Ingest(i)
  \/ Sweep
  \/ \E id \in MailboxIds : SetPinned(id)
  \/ \E id \in MailboxIds : SetFavorite(id)

SpecSweep == Init /\ [][NextSweep]_vars

\* One ingestion at a time, with the sweep and the user opening mailboxes
\* interleaving at every await.
NextRetention ==
  \/ \E i \in Invocations : Alone(i) /\ Ingest(i)
  \/ Sweep
  \/ \E id \in MailboxIds : Touch(id)

SpecRetention == Init /\ [][NextRetention]_vars

\* One ingestion at a time, nothing else running.
NextEmail == \E i \in Invocations : Alone(i) /\ Ingest(i)

SpecEmail == InitEmail /\ [][NextEmail]_vars

SpecContent == InitContent /\ [][NextEmail]_vars

(***************************************************************************)
(* Properties.                                                             *)
(***************************************************************************)
Protected(mb) == mb.is_pinned \/ mb.is_favorite

HasAt(s) == \E k \in 1..Len(s) : s[k] = "@"

\* The invocation got its database connection and ran the pipeline.
Ran(i) == email[i].pc # "idle" /\ email[i].log # "database"

\* The forward-target lookup of the invocation has returned and the forward
\* has been called.
Dispatched(i) ==
  Ran(i) /\ email[i].pc # "target" /\ email[i].log # "target"

\* The invocation has extracted the content, attempted the blob write and
\* derived the preview, and is at or past the mailbox lookup.
Archived(i) ==
  \/ email[i].pc \in { "archived", "resolved", "insert", "requery" }
  \/ email[i].pc = "done" /\ email[i].log \in { "mailbox", "insert", "recorded" }

\* C1: no step, of the sweep or of anything else, removes a mailbox row that
\* is pinned or favorite, whatever its age.
C1_SweepKeepsProtectedMailboxes ==
  [][ \A mb \in mailboxes :
        Protected(mb) => \E kept \in mailboxes' : kept.id = mb.id ]_vars

\* A tick has purged the mailboxes while a protected mailbox was past retention.
C1_Witness ==
  /\ sweep.pc = "swept"
  /\ \E mb \in mailboxes : Expired(mb) /\ Protected(mb)

\* C2: no step removes a message row owned by a mailbox that is past
\* retention and pinned or favorite.
C2_SweepKeepsProtectedMessages ==
  [][ \A m \in messages :
        (\E mb \in mailboxes :
            mb.id = m.mailbox_id /\ Expired(mb) /\ Protected(mb))
        => m \in messages' ]_vars

\* C3: an ingestion whose blob was not stored and whose mailbox resolved has
\* recorded a row with the empty object key; a row carries a key only if the
\* blob is stored under it.
C3_FailedArchiveLeavesEmptyKey ==
  /\ \A i \in Invocations :
       email[i].log = "recorded" /\ ~email[i].stored
       => \E m \in messages :
            m.mailbox_id = email[i].mailboxId /\ m.r2_object_key = EmptyKey
  /\ \A m \in messages :
       m.r2_object_key # EmptyKey => m.r2_object_key \in blobs

\* C4: no ingestion ends on the rejection of its mailbox insert: the loser of
\* the race goes on to resolve the identifier and record its message.
C4_RaceLoserRecords ==
  \A i \in Invocations : email[i].pc = "done" => email[i].log # "insert"

\* C5: of two ingestions run one after the other for addresses equal up to
\* letter case, the second resolves to the identifier of the first, and there
\* is exactly one mailbox row of the lowercase address.
C5_ProvisioningIdempotent ==
  \A i, j \in Invocations :
    ( /\ i < j
      /\ email[i].pc = "done" /\ email[i].mailboxId # 0
      /\ email[j].pc = "done" /\ Archived(j)
      /\ toLowerCase(email[i].mailbox) = toLowerCase(email[j].mailbox) )
    => /\ email[j].mailboxId = email[i].mailboxId
       /\ Cardinality(SelectMailbox(toLowerCase(email[i].mailbox))) = 1

\* Two recorded ingestions of addresses differing in letter case only.
C5_Witness ==
  \E i, j \in Invocations :
    /\ i < j
    /\ email[i].log = "recorded" /\ email[j].log = "recorded"
    /\ email[i].mailbox # email[j].mailbox
    /\ toLowerCase(email[i].mailbox) = toLowerCase(email[j].mailbox)
    /\ email[j].mailboxId = email[i].mailboxId

\* C6: an ingestion whose mailbox address has no "@" inserts no mailbox row
\* and no message row, and once it has come to the mailbox resolution it ends
\* in the mailbox resolution failure.
C6_NoAtIsNotRecorded ==
  \A i \in Invocations :
    (Ran(i) /\ ~HasAt(Mailbox(email[i].message)))
    => /\ SelectMailbox(toLowerCase(Mailbox(email[i].message))) = {}
       /\ \A m \in messages : m.r2_object_key # ObjectKey(i)
       /\ email[i].log # "recorded"
       /\ (email[i].pc = "done" /\ Archived(i)) => email[i].log = "mailbox"

\* An ingestion of a non-empty address without "@" has ended.
C6_Witness ==
  \E i \in Invocations :
    /\ email[i].pc = "done" /\ email[i].log = "mailbox"
    /\ email[i].mailbox = NoAt

\* C7: every ingestion whose forward-target lookup returned dispatched exactly
\* one forward, the mailbox-specific one exactly when the lookup returned a
\* target.
C7_ExactlyOneForward ==
  \A i \in Invocations :
    Dispatched(i)
    => /\ Cardinality(email[i].forwards) = 1
       /\ "forwardByMailboxConfig" \in email[i].forwards
            <=> email[i].mailboxForwardTo # EmptyStr
       /\ "forwardByLocalPart" \in email[i].forwards
            <=> email[i].mailboxForwardTo = EmptyStr

\* Both strategies have been used, each by one recorded ingestion.
C7_Witness ==
  \E i, j \in Invocations :
    /\ email[i].log = "recorded" /\ email[j].log = "recorded"
    /\ email[i].forwards = { "forwardByMailboxConfig" }
    /\ email[j].forwards = { "forwardByLocalPart" }

\* C8: an ingestion that had its database connection, whose forward-target
\* lookup returned and whose address has a local part and a domain ends with
\* its message row written.
C8_ValidAddressIsRecorded ==
  \A i \in Invocations :
    ( /\ email[i].pc = "done" /\ Ran(i) /\ email[i].log # "target"
      /\ Splittable(Mailbox(email[i].message)) )
    => email[i].log = "recorded"

\* C9: a tick schedules a blob delete for every keyed message of a mailbox
\* past retention that is not protected, then deletes all message rows of
\* such a mailbox, then the mailbox row.
C9_Unprotected(m) ==
  \E mb \in mailboxes : mb.id = m.mailbox_id /\ Expired(mb) /\ ~Protected(mb)

C9_SweepRemovesExpired ==
  [][ /\ (sweep.pc = "idle" /\ sweep'.pc = "scheduled")
         => \A m \in messages :
              (C9_Unprotected(m) /\ m.r2_object_key # EmptyKey)
              => BagIn(m.r2_object_key, pendingDeletes')
      /\ (sweep.pc = "scheduled" /\ sweep'.pc = "messages")
         => \A m \in messages : C9_Unprotected(m) => m \notin messages'
      /\ (sweep.pc = "messages" /\ sweep'.pc = "swept")
         => \A mb \in mailboxes :
              (Expired(mb) /\ ~Protected(mb))
              => \A left \in mailboxes' : left.id # mb.id ]_vars

\* C10: the canonical recipient is the envelope value when the envelope
\* supplies a non-empty one and the To header otherwise, and the mailbox is
\* the address extracted from it.
C10_Supplied(to) ==
  CASE to.kind = "string" -> to.str
    [] to.kind = "list" /\ to.list # << >> /\ to.list[1].kind \in { "string", "object" }
         -> to.list[1].str
    [] OTHER -> EmptyStr

C10_RecipientPrefersEnvelope ==
  \A i \in Invocations :
    Ran(i)
    => LET supplied == C10_Supplied(email[i].message.to)
           canonical == IF supplied # EmptyStr THEN supplied
                        ELSE email[i].message.toHeader
       IN  /\ email[i].resolvedRecipient = canonical
           /\ Archived(i) => email[i].mailbox = extractEmail(canonical)

\* One ingestion took the address field of the envelope's first entry, another
\* fell back to the header because reading the entry failed.
C10_Witness ==
  \E i, j \in Invocations :
    /\ Archived(i) /\ email[i].message.to.kind = "list"
    /\ email[i].message.to.list # << >>
    /\ email[i].message.to.list[1].kind = "object"
    /\ email[i].resolvedRecipient = AXu
    /\ Archived(j) /\ email[j].message.to.kind = "list"
    /\ email[j].message.to.list # << >>
    /\ email[j].message.to.list[1].kind = "null"
    /\ email[j].resolvedRecipient = email[j].message.toHeader

\* C11: every message row references a mailbox row that exists.
C11_MessagesHaveMailbox ==
  \A m \in messages : \E mb \in mailboxes : mb.id = m.mailbox_id

\* C12: the blob of an ingestion is written only once its mailbox identifier
\* is resolved, so an ingestion that ends in the resolution failure has
\* stored no blob.
C12_BlobAfterResolution ==
  \A i \in Invocations : email[i].stored => email[i].mailboxId # 0

\* C13: a tick that failed has deleted no message row and no blob.
C13_FailedTickRemovesNothing ==
  sweep.pc = "failed" =>
    /\ sweep.removed = {}
    /\ \A key \in sweep.keys : BagIn(key, pendingDeletes) \/ key \in blobs

C14_PastRetention(mb) == mb.created_at + EXPIRE_MINUTES <= now

C14_OwnerPastRetention(m) ==
  \E mb \in mailboxes : mb.id = m.mailbox_id /\ C14_PastRetention(mb)

C14_Ids(rows) == { mb.id : mb \in rows }

\* The keys of which the step hands a delete to the blob store.
C14_Scheduled ==
  { key \in BagToSet(pendingDeletes') :
      CopiesIn(key, pendingDeletes') > CopiesIn(key, pendingDeletes) }

\* C14: a step deletes a mailbox row or a message row, or hands a key to the
\* blob delete, only when the owning mailbox was created at least the
\* retention window before the step; a blob is removed only by such a
\* scheduled delete; and the two row deletes of a tick take every message
\* row of a mailbox past retention and every such mailbox that is not
\* flagged, whenever the mailbox was last opened.
C14_RetentionFromCreation ==
  [][ /\ \A mb \in mailboxes :
           mb.id \notin C14_Ids(mailboxes') => C14_PastRetention(mb)
      /\ \A m \in messages \ messages' : C14_OwnerPastRetention(m)
      /\ \A key \in C14_Scheduled :
           \E m \in messages : m.r2_object_key = key /\ C14_OwnerPastRetention(m)
      /\ blobs \ blobs' \subseteq BagToSet(pendingDeletes)
      /\ (sweep.pc = "scheduled" /\ sweep'.pc = "messages") =>
           \A m \in messages' : ~C14_OwnerPastRetention(m)
      /\ (sweep.pc = "messages" /\ sweep'.pc = "swept") =>
           \A mb \in mailboxes' : C14_PastRetention(mb) => Protected(mb)
    ]_vars

\* A tick has deleted the messages of a mailbox that is past retention and was
\* opened within the window.
C14_Witness ==
  /\ sweep.pc = "messages"
  /\ sweep.removed # {}
  /\ \E mb \in mailboxes :
       /\ C14_PastRetention(mb)
       /\ mb.last_accessed_at + EXPIRE_MINUTES > now

\* C15: within a tick the scan and the scheduling of every blob delete come
\* first, then the message rows are deleted, then the mailbox rows: keys are
\* scheduled only by the step that opens the tick, message rows go only in
\* the step after it, mailbox rows only in the step after that.
C15_SweepOrder ==
  [][ /\ C14_Scheduled # {} =>
           /\ sweep.pc = "idle" /\ sweep'.pc = "scheduled"
           /\ messages' = messages /\ mailboxes' = mailboxes
      /\ sweep'.pc \notin { "idle", "scheduled" } => sweep'.keys = sweep.keys
      /\ ~(messages \subseteq messages') =>
           /\ sweep.pc = "scheduled" /\ sweep'.pc = "messages"
           /\ mailboxes' = mailboxes
      /\ ~(C14_Ids(mailboxes) \subseteq C14_Ids(mailboxes')) =>
           /\ sweep.pc = "messages" /\ sweep'.pc = "swept"
           /\ messages' = messages
    ]_vars

\* A tick that scheduled a blob delete, deleted a message row and deleted the
\* mailbox row.
C15_Witness ==
  /\ sweep.pc = "swept"
  /\ sweep.keys # {}
  /\ sweep.removed # {}
  /\ mailboxes = {}

\* A delete the running tick scheduled has settled and its blob is still stored.
C16_DeleteFailed ==
  \E key \in sweep.keys : ~BagIn(key, pendingDeletes) /\ key \in blobs

\* C16: the step in which a blob delete settles leaves the tick, the message
\* rows and the mailbox rows as they are and schedules nothing again; the two
\* row deletes of the tick are never held back by deletes that are pending or
\* have failed, and they take every row the age predicate selects.
C16_FailedBlobDeleteIgnored ==
  [][ /\ pendingDeletes' # pendingDeletes /\ C14_Scheduled = {}
           => /\ sweep' = sweep
              /\ messages' = messages
              /\ mailboxes' = mailboxes
              /\ BagCardinality(pendingDeletes') = BagCardinality(pendingDeletes) - 1
      /\ sweep.pc = "scheduled" => ENABLED DeleteMessages
      /\ sweep.pc = "messages" => ENABLED DeleteMailboxes
      /\ (C16_DeleteFailed /\ sweep.pc = "scheduled" /\ sweep'.pc = "messages")
           => \A m \in messages' : ~C14_OwnerPastRetention(m)
      /\ (C16_DeleteFailed /\ sweep.pc = "messages" /\ sweep'.pc = "swept")
           => \A mb \in mailboxes' : C14_PastRetention(mb) => Protected(mb)
    ]_vars

\* A tick ran to its end and deleted the message row and the mailbox row
\* although the delete of the blob had failed before the message DELETE.
C16_Witness ==
  /\ sweep.pc = "swept"
  /\ C16_DeleteFailed
  /\ sweep.removed # {}
  /\ mailboxes = {}

\* The put of the invocation was attempted and threw.
C17_PutFailed(i) ==
  Archived(i) /\ r2 /\ email[i].rawBuffer /\ ~email[i].stored

\* C17: with no ingestion and no tick in progress, no delete pending and no
\* put failed, every stored blob is the object of some message row.
C17_NoOrphanBlob ==
  ( /\ \A i \in Invocations : email[i].pc \in { "idle", "done" }
    /\ \A i \in Invocations : ~C17_PutFailed(i)
    /\ sweep.pc = "idle"
    /\ pendingDeletes = EmptyBag )
  => \A key \in blobs : \E m \in messages : m.r2_object_key = key

\* C18: the preview has at most 120 characters; it is the first 120 of the
\* trimmed text part when that part is not blank, and otherwise the first 120
\* of the HTML part with its tags replaced, its white space collapsed, trimmed.
C18_PreviewOfTrimmedText ==
  \A i \in Invocations :
    Archived(i) =>
      /\ Len(email[i].preview) <= PREVIEW_LENGTH
      /\ email[i].preview =
           IF trim(email[i].textContent) # EmptyStr
             THEN slice(trim(email[i].textContent), PREVIEW_LENGTH)
             ELSE slice(trim(CollapseSpaces(StripTags(email[i].htmlContent))),
                        PREVIEW_LENGTH)

\* C19: every mailbox row is its local part, "@" and its domain, in lower
\* case, with neither part empty.
C19_AddressIsLocalAtDomain ==
  \A mb \in mailboxes :
    /\ mb.address = mb.local_part \o << "@" >> \o mb.domain
    /\ mb.address = toLowerCase(mb.address)
    /\ mb.local_part = toLowerCase(mb.local_part)
    /\ mb.domain = toLowerCase(mb.domain)
    /\ mb.local_part # EmptyStr
    /\ mb.domain # EmptyStr

====
